---- MODULE Spec2Model ----
(***************************************************************************)
(* A model of the titan-rtc-client signaling client: Client.ts (the        *)
(* correlation table, the session maps, the connection registry and the    *)
(* candidate buffer), IncomingSession.ts, OutgoingSession.ts and           *)
(* PeerConnection.ts, and of connect() of index.ts, which opens the socket *)
(* and constructs the Client from the server's first message.              *)
(*                                                                         *)
(* JavaScript runs one handler at a time.  The continuation of an          *)
(* `await this.send(...)` runs in a microtask, that is before the next     *)
(* socket or engine event is handled, so a handler and the continuations   *)
(* it resumes form one atomic action.  The RTC engine is an external       *)
(* collaborator: its promises and callbacks complete in later tasks and    *)
(* are separate actions.  The engine serialises setRemoteDescription and   *)
(* createAnswer on its operations chain and settles nothing once closed.   *)
(***************************************************************************)
EXTENDS Integers, Sequences, FiniteSets, TLC

\* ------------------------------------------------------------- bounds
MaxReqs == 3        \* messages handed to send() in one run
MaxSessions == 2    \* session objects constructed in one run
MaxConns == 2       \* PeerConnection objects constructed in one run
MaxCands == 3       \* sync_candidate messages handled in one run
MaxConnects == 2    \* connect() calls in one run

\* ------------------------------------------------------------- values
Self == "A"
Remote == {"B", "C"}
Peers == {Self} \cup Remote
NoUri == "-"
NoId == 0
ServerId == 100
Completed == "completed"
Cands == {"c1", "c2", Completed}

\* nanoid(): a fresh identifier per request; request number n gets key n
nanoid(n) == n
Keys == (1..(MaxReqs + 1)) \cup {ServerId}

VARIABLES
  attempts,                 \* the connect() calls: socket, handshake listeners, promise
  socketOpen,               \* socket.readyState === WebSocket.OPEN
  connections,              \* Client.connections: uri -> connection object (0: none)
  pendingIncomingSessions,  \* uri -> session object (0: none)
  pendingOutgoingSessions,  \* uri -> session object (0: none)
  pendingResponses,         \* correlation id -> the resolver stored by send()
  hasSetRemoteOffer,        \* Client.hasSetRemoteOffer
  candidates,               \* Client.candidates
  sessions,                 \* the session objects constructed so far
  conns,                    \* the PeerConnection objects constructed so far
  requests,                 \* the promises send() returned: key, resolving message, times resolved
  arrived,                  \* the sync_candidate messages handled: <<uri, candidate>>
  last                      \* the last call or event: name, uri, error, notifications, message sent

vars == <<attempts, socketOpen, connections, pendingIncomingSessions, pendingOutgoingSessions,
          pendingResponses, hasSetRemoteOffer, candidates, sessions, conns, requests,
          arrived, last>>

NoMsg == [cmd |-> "-", uri |-> NoUri, key |-> NoId]
Last(op, uri, err, ev, out) == [op |-> op, uri |-> uri, err |-> err, ev |-> ev, out |-> out]

\* a resolver of pendingResponses: the request it resolves and the code awaiting it
Resolver(req, kind, peer, sess) == [req |-> req, kind |-> kind, peer |-> peer, sess |-> sess]
NoResolver == Resolver(0, "-", NoUri, 0)

Init ==
  /\ attempts = << >>
  /\ socketOpen = TRUE
  /\ connections = [p \in Peers |-> 0]
  /\ pendingIncomingSessions = [p \in Peers |-> 0]
  /\ pendingOutgoingSessions = [p \in Peers |-> 0]
  /\ pendingResponses = [k \in Keys |-> NoResolver]
  /\ hasSetRemoteOffer = FALSE
  /\ candidates = << >>
  /\ sessions = << >>
  /\ conns = << >>
  /\ requests = << >>
  /\ arrived = << >>
  /\ last = Last("init", NoUri, "ok", << >>, NoMsg)

\* ------------------------------------------------------------- Client.send
\* send() without its check of message.uri against the own ID
SendErr_NoSelfCheck(uri) ==
  IF ~socketOpen THEN "SocketNotOpen" ELSE "ok"

\* the precondition checks of send(): the error thrown, or "ok"
SendErr(uri) ==
  IF ~socketOpen THEN "SocketNotOpen"
  ELSE IF uri # NoUri /\ uri = Self THEN "SelfAddressed"
  ELSE "ok"

\* message.session_id = message.session_id || nanoid()
SendKey(sid) == IF sid # NoId THEN sid ELSE nanoid(Len(requests) + 1)

\* send() that hands the message to the socket without storing a resolver
SendFrom_NoRegister(pr, cmd, uri, sid, kind, peer, sess) ==
  [pr |-> pr,
   requests |-> Append(requests, [key |-> SendKey(sid), by |-> NoId, times |-> 0]),
   out |-> [cmd |-> cmd, uri |-> uri, key |-> SendKey(sid)]]

\* the body of send() once its checks passed, from the table pr: the resolver is
\* stored under the message's session_id, then the message is handed to the socket
SendFrom(pr, cmd, uri, sid, kind, peer, sess) ==
  [pr |-> [pr EXCEPT ![SendKey(sid)] = Resolver(Len(requests) + 1, kind, peer, sess)],
   requests |-> Append(requests, [key |-> SendKey(sid), by |-> NoId, times |-> 0]),
   out |-> [cmd |-> cmd, uri |-> uri, key |-> SendKey(sid)]]

\* ------------------------------------------------------------- sessions
Session(dir, peer) == [dir |-> dir, peer |-> peer, settled |-> FALSE, events |-> << >>]

\* settle() without its test of the settled flag
settle_Unguarded(ss, s, type) ==
  [ss EXCEPT ![s].settled = TRUE, ![s].events = @ \o <<type, "settled">>]

\* IncomingSession.settle / OutgoingSession.settle on session s of the list ss
settle(ss, s, type) ==
  IF ss[s].settled THEN ss
  ELSE [ss EXCEPT ![s].settled = TRUE, ![s].events = @ \o <<type, "settled">>]

\* the client's once-listener of 'settled': delete(uri) on the session's map,
\* run when settle() on s dispatches 'settled' (s was not settled before)
AfterSettled(map, ss, s, dir) ==
  IF ~ss[s].settled /\ ss[s].dir = dir THEN [map EXCEPT ![ss[s].peer] = 0] ELSE map

\* ------------------------------------------------------------- connections
Connection(uri) ==
  [uri |-> uri, wired |-> TRUE, remote |-> "none", answer |-> "none", offerSid |-> NoId,
   engine |-> << >>, replay |-> << >>, appliedAt |-> -1, events |-> << >>]

\* createPeerConnection() without its connections.has(uri) check
CreatePeerConnectionErr_NoHasCheck(uri) ==
  IF uri = Self THEN "SelfAddressed" ELSE "ok"

\* the checks of createPeerConnection(): the error thrown, or "ok"
CreatePeerConnectionErr(uri) ==
  IF uri = Self THEN "SelfAddressed"
  ELSE IF connections[uri] # 0 THEN "AlreadyConnected"
  ELSE "ok"

\* ------------------------------------------------------------- API calls
\* Client.createPeerConnection(uri), called by the application
createPeerConnection(uri) ==
  LET err == CreatePeerConnectionErr(uri) IN
  /\ err = "ok" => Len(conns) < MaxConns
  /\ last' = Last("createPeerConnection", uri, err, << >>, NoMsg)
  /\ IF err = "ok"
     THEN /\ conns' = Append(conns, Connection(uri))
          /\ connections' = [connections EXCEPT ![uri] = Len(conns) + 1]
     ELSE UNCHANGED <<conns, connections>>
  /\ UNCHANGED <<attempts, socketOpen, pendingIncomingSessions, pendingOutgoingSessions,
                 pendingResponses, hasSetRemoteOffer, candidates, sessions, requests,
                 arrived>>

\* the checks createSession() and subscribeStream() make before they send
ProposalErr(uri) ==
  IF uri = Self THEN "SelfAddressed"
  ELSE IF connections[uri] # 0 THEN "AlreadyEstablished"
  ELSE IF pendingOutgoingSessions[uri] # 0 \/ pendingIncomingSessions[uri] # 0
       THEN "SessionAlreadyActive"
  ELSE "ok"

\* a call that sends one request and suspends on its response, or throws err
Call(op, target, err, cmd, uri, sid, kind, sess) ==
  /\ err = "ok" => Len(requests) < MaxReqs
  /\ IF err = "ok"
     THEN LET r == SendFrom(pendingResponses, cmd, uri, sid, kind, target, sess) IN
          /\ pendingResponses' = r.pr
          /\ requests' = r.requests
          /\ last' = Last(op, target, err, << >>, r.out)
     ELSE /\ last' = Last(op, target, err, << >>, NoMsg)
          /\ UNCHANGED <<pendingResponses, requests>>
  /\ UNCHANGED <<attempts, socketOpen, connections, pendingIncomingSessions,
                 pendingOutgoingSessions, hasSetRemoteOffer, candidates, sessions,
                 conns, arrived>>

\* Client.createSession(uri) up to its await
createSession(uri) ==
  LET err == IF ProposalErr(uri) # "ok" THEN ProposalErr(uri) ELSE SendErr(uri) IN
  Call("createSession", uri, err, "session-start", uri, NoId, "createSession", 0)

\* Client.subscribeStream(uri) up to its await; the create_session message has no uri
subscribeStream(uri) ==
  LET err == IF ProposalErr(uri) # "ok" THEN ProposalErr(uri) ELSE SendErr(NoUri) IN
  Call("subscribeStream", uri, err, "create_session", NoUri, NoId, "subscribeStream", 0)

\* Client.send(message) called by the application, with or without a session_id
send(uri, sid) ==
  Call("send", uri, SendErr(uri), "custom", uri, sid, "none", 0)

\* the settled check of accept(), reject() and cancel(), then the checks of send()
SessionCallErr(s) ==
  IF sessions[s].settled THEN "AlreadySettled" ELSE SendErr(sessions[s].peer)

\* IncomingSession.accept() up to its await
accept(s) ==
  /\ sessions[s].dir = "in"
  /\ Call("accept", sessions[s].peer, SessionCallErr(s), "session-accept",
          sessions[s].peer, NoId, "accept", s)

\* IncomingSession.reject() up to its await
reject(s) ==
  /\ sessions[s].dir = "in"
  /\ Call("reject", sessions[s].peer, SessionCallErr(s), "session-reject",
          sessions[s].peer, NoId, "reject", s)

\* OutgoingSession.cancel() up to its await
cancel(s) ==
  /\ sessions[s].dir = "out"
  /\ Call("cancel", sessions[s].peer, SessionCallErr(s), "session-cancel",
          sessions[s].peer, NoId, "cancel", s)

\* ------------------------------------------------------------- external transitions
\* the events a settle(type) on session s dispatches: none once it is settled
Dispatched(s, type) == IF sessions[s].settled THEN << >> ELSE <<type, "settled">>

\* a handler of a session that only calls settle(type): handleReject, handleTimeout,
\* handleCancel
Transition(op, s, dir, type) ==
  /\ sessions[s].dir = dir
  /\ sessions' = settle(sessions, s, type)
  /\ pendingIncomingSessions' = AfterSettled(pendingIncomingSessions, sessions, s, "in")
  /\ pendingOutgoingSessions' = AfterSettled(pendingOutgoingSessions, sessions, s, "out")
  /\ last' = Last(op, sessions[s].peer, "ok", Dispatched(s, type), NoMsg)
  /\ UNCHANGED <<attempts, socketOpen, connections, pendingResponses, hasSetRemoteOffer,
                 candidates, conns, requests, arrived>>

\* the settled check of handleAccept(), then the checks of createPeerConnection()
HandleAcceptErr(s) ==
  IF sessions[s].settled THEN "AlreadySettled" ELSE CreatePeerConnectionErr(sessions[s].peer)

\* OutgoingSession.handleAccept()
handleAccept(s) ==
  LET uri == sessions[s].peer
      err == HandleAcceptErr(s) IN
  /\ sessions[s].dir = "out"
  /\ IF sessions[s].settled \/ err # "ok"
     THEN /\ last' = Last("handleAccept", uri, err, << >>, NoMsg)
          /\ UNCHANGED <<sessions, conns, connections, pendingOutgoingSessions>>
     ELSE /\ Len(conns) < MaxConns
          /\ conns' = Append(conns, Connection(uri))
          /\ connections' = [connections EXCEPT ![uri] = Len(conns) + 1]
          /\ sessions' = settle(sessions, s, "accepted")
          /\ pendingOutgoingSessions' =
               AfterSettled(pendingOutgoingSessions, sessions, s, "out")
          /\ last' = Last("handleAccept", uri, "ok", Dispatched(s, "accepted"), NoMsg)
  /\ UNCHANGED <<attempts, socketOpen, pendingIncomingSessions, pendingResponses,
                 hasSetRemoteOffer, candidates, requests, arrived>>

\* OutgoingSession.handleReject()
handleReject(s) == Transition("handleReject", s, "out", "rejected")

\* OutgoingSession.handleTimeout()
handleTimeoutOut(s) == Transition("handleTimeout", s, "out", "timed-out")

\* IncomingSession.handleCancel()
handleCancel(s) == Transition("handleCancel", s, "in", "canceled")

\* IncomingSession.handleTimeout()
handleTimeoutIn(s) == Transition("handleTimeout", s, "in", "timed-out")

\* ------------------------------------------------------------- inbound messages
\* an inbound socket message; fmt tells a JSON string from binary data and bad JSON
Message(fmt, sid, type, cmd, uri, result, cand, rsid) ==
  [fmt |-> fmt, sid |-> sid, type |-> type, cmd |-> cmd, uri |-> uri,
   result |-> result, cand |-> cand, rsid |-> rsid]

Malformed == {Message(f, NoId, "-", "-", NoUri, "-", "-", NoId) : f \in {"binary", "badjson"}}
Responses ==
  {Message("json", k, "-", "-", NoUri, r, "-", i) :
     k \in Keys, r \in {"success", "failed"}, i \in {NoId, ServerId}}
Offers ==
  {Message("json", i, "publisher_offer", "-", u, "event", "-", NoId) :
     i \in {NoId, ServerId}, u \in Remote}
CandidateMessages ==
  {Message("json", i, "sync_candidate", "-", u, "event", c, NoId) :
     i \in {NoId, ServerId}, u \in Remote, c \in Cands}
Commands ==
  {Message("json", NoId, "-", "session-accept", u, "event", "-", NoId) : u \in Remote}

\* handleSocketMessage that falls through after dispatching 'error' and
\* dispatches it again
onMalformed_Twice(m) ==
  /\ m.fmt # "json"
  /\ last' = Last("malformed", NoUri, "ok", <<"error", "error">>, NoMsg)
  /\ UNCHANGED <<attempts, socketOpen, connections, pendingIncomingSessions,
                 pendingOutgoingSessions, pendingResponses, hasSetRemoteOffer,
                 candidates, sessions, conns, requests, arrived>>

\* handleSocketMessage: data that is no string, or no JSON
onMalformed(m) ==
  /\ m.fmt # "json"
  /\ last' = Last("malformed", NoUri, "ok", <<"error">>, NoMsg)
  /\ UNCHANGED <<attempts, socketOpen, connections, pendingIncomingSessions,
                 pendingOutgoingSessions, pendingResponses, hasSetRemoteOffer,
                 candidates, sessions, conns, requests, arrived>>

\* this.pendingResponses.has(message.session_id)
IsResponse(m) == m.fmt = "json" /\ m.sid # NoId /\ pendingResponses[m.sid] # NoResolver

\* the table after delete(message.session_id)
Deleted(m) == [pendingResponses EXCEPT ![m.sid] = NoResolver]

\* a handler that resolves the oldest unresolved request, whatever its identifier
resolve_Oldest(m) ==
  LET n == CHOOSE i \in DOMAIN requests :
             requests[i].times = 0 /\ \A j \in 1..(i - 1) : requests[j].times # 0 IN
  [requests EXCEPT ![n].by = m.sid, ![n].times = @ + 1]

\* resolve(message): the promise of the resolver found under message.session_id is resolved
resolve(m) ==
  [requests EXCEPT ![pendingResponses[m.sid].req].by = m.sid,
                   ![pendingResponses[m.sid].req].times = @ + 1]

\* handleSocketMessage resolving a request on which no state of the client waits
resumeNone(m) ==
  /\ IsResponse(m) /\ pendingResponses[m.sid].kind = "none"
  /\ pendingResponses' = Deleted(m)
  /\ requests' = resolve(m)
  /\ last' = Last("response", pendingResponses[m.sid].peer, "ok", << >>, NoMsg)
  /\ UNCHANGED <<attempts, socketOpen, connections, pendingIncomingSessions,
                 pendingOutgoingSessions, hasSetRemoteOffer, candidates, sessions,
                 conns, arrived>>

\* handleSocketMessage resolving createSession(): the rest of createSession()
resumeCreateSession(m) ==
  /\ IsResponse(m) /\ pendingResponses[m.sid].kind = "createSession"
  /\ pendingResponses' = Deleted(m)
  /\ requests' = resolve(m)
  /\ LET uri == pendingResponses[m.sid].peer IN
     IF m.result = "failed"
     THEN /\ last' = Last("response", uri, "RemoteRejected", << >>, NoMsg)
          /\ UNCHANGED <<sessions, pendingOutgoingSessions>>
     ELSE /\ Len(sessions) < MaxSessions
          /\ sessions' = Append(sessions, Session("out", uri))
          /\ pendingOutgoingSessions' =
               [pendingOutgoingSessions EXCEPT ![uri] = Len(sessions) + 1]
          /\ last' = Last("response", uri, "ok", << >>, NoMsg)
  /\ UNCHANGED <<attempts, socketOpen, connections, pendingIncomingSessions, hasSetRemoteOffer,
                 candidates, conns, arrived>>

\* handleSocketMessage resolving subscribeStream(): the rest of subscribeStream();
\* this.send(reqSub) is not awaited, so what it throws is lost
resumeSubscribeStream(m) ==
  /\ IsResponse(m) /\ pendingResponses[m.sid].kind = "subscribeStream"
  /\ LET uri == pendingResponses[m.sid].peer IN
     IF m.result = "failed"
     THEN /\ last' = Last("response", uri, "RemoteRejected", << >>, NoMsg)
          /\ pendingResponses' = Deleted(m)
          /\ requests' = resolve(m)
          /\ UNCHANGED <<sessions, pendingIncomingSessions>>
     ELSE /\ Len(sessions) < MaxSessions
          /\ sessions' = Append(sessions, Session("in", uri))
          /\ IF m.result = "success" /\ SendErr(uri) = "ok"
             THEN LET r == SendFrom(Deleted(m), "subscribe_stream", uri, m.rsid,
                                    "none", uri, 0) IN
                  /\ Len(requests) < MaxReqs
                  /\ pendingResponses' = r.pr
                  /\ requests' = [r.requests EXCEPT
                                    ![pendingResponses[m.sid].req].by = m.sid,
                                    ![pendingResponses[m.sid].req].times = @ + 1]
                  /\ last' = Last("response", uri, "ok", << >>, r.out)
             ELSE /\ pendingResponses' = Deleted(m)
                  /\ requests' = resolve(m)
                  /\ last' = Last("response", uri, "ok", << >>, NoMsg)
          /\ pendingIncomingSessions' =
               [pendingIncomingSessions EXCEPT ![uri] = Len(sessions) + 1]
  /\ UNCHANGED <<attempts, socketOpen, connections, pendingOutgoingSessions, hasSetRemoteOffer,
                 candidates, conns, arrived>>

\* handleSocketMessage resolving accept(): the rest of IncomingSession.accept()
resumeAccept(m) ==
  /\ IsResponse(m) /\ pendingResponses[m.sid].kind = "accept"
  /\ pendingResponses' = Deleted(m)
  /\ requests' = resolve(m)
  /\ LET s == pendingResponses[m.sid].sess
         uri == sessions[s].peer
         err == CreatePeerConnectionErr(uri) IN
     IF m.result = "failed"
     THEN /\ sessions' = settle(sessions, s, "error")
          /\ pendingIncomingSessions' =
               AfterSettled(pendingIncomingSessions, sessions, s, "in")
          /\ last' = Last("response", uri, "RemoteRejected", << >>, NoMsg)
          /\ UNCHANGED <<conns, connections>>
     ELSE /\ err = "ok" => Len(conns) < MaxConns
          /\ last' = Last("response", uri, err, << >>, NoMsg)
          /\ IF err = "ok"
             THEN /\ conns' = Append(conns, Connection(uri))
                  /\ connections' = [connections EXCEPT ![uri] = Len(conns) + 1]
             ELSE UNCHANGED <<conns, connections>>
          /\ UNCHANGED <<sessions, pendingIncomingSessions>>
  /\ UNCHANGED <<attempts, socketOpen, pendingOutgoingSessions, hasSetRemoteOffer, candidates,
                 arrived>>

\* the rest of reject() without its test of response.result
resumeReject_IgnoresResult(m) ==
  /\ IsResponse(m) /\ pendingResponses[m.sid].kind = "reject"
  /\ pendingResponses' = Deleted(m)
  /\ requests' = resolve(m)
  /\ LET s == pendingResponses[m.sid].sess IN
     /\ sessions' = settle(sessions, s, "rejected")
     /\ pendingIncomingSessions' = AfterSettled(pendingIncomingSessions, sessions, s, "in")
     /\ last' = Last("response", sessions[s].peer, "ok", << >>, NoMsg)
  /\ UNCHANGED <<attempts, socketOpen, connections, pendingOutgoingSessions, hasSetRemoteOffer,
                 candidates, conns, arrived>>

\* handleSocketMessage resolving reject(): the rest of IncomingSession.reject()
resumeReject(m) ==
  /\ IsResponse(m) /\ pendingResponses[m.sid].kind = "reject"
  /\ pendingResponses' = Deleted(m)
  /\ requests' = resolve(m)
  /\ LET s == pendingResponses[m.sid].sess IN
     /\ sessions' = settle(sessions, s, IF m.result = "failed" THEN "error" ELSE "rejected")
     /\ pendingIncomingSessions' = AfterSettled(pendingIncomingSessions, sessions, s, "in")
     /\ last' = Last("response", sessions[s].peer,
                     IF m.result = "failed" THEN "RemoteRejected" ELSE "ok", << >>, NoMsg)
  /\ UNCHANGED <<attempts, socketOpen, connections, pendingOutgoingSessions, hasSetRemoteOffer,
                 candidates, conns, arrived>>

\* handleSocketMessage resolving cancel(): the rest of OutgoingSession.cancel()
resumeCancel(m) ==
  /\ IsResponse(m) /\ pendingResponses[m.sid].kind = "cancel"
  /\ pendingResponses' = Deleted(m)
  /\ requests' = resolve(m)
  /\ LET s == pendingResponses[m.sid].sess IN
     /\ sessions' = settle(sessions, s, IF m.result = "failed" THEN "error" ELSE "canceled")
     /\ pendingOutgoingSessions' = AfterSettled(pendingOutgoingSessions, sessions, s, "out")
     /\ last' = Last("response", sessions[s].peer,
                     IF m.result = "failed" THEN "RemoteRejected" ELSE "ok", << >>, NoMsg)
  /\ UNCHANGED <<attempts, socketOpen, connections, pendingIncomingSessions, hasSetRemoteOffer,
                 candidates, conns, arrived>>

\* message.type selects the handler once no pending response matched
IsEvent(m, type) == m.fmt = "json" /\ ~IsResponse(m) /\ m.type = type

\* Client.handlePublishOffer(message)
handlePublishOffer(m) ==
  /\ IsEvent(m, "publisher_offer")
  /\ Len(sessions) < MaxSessions
  /\ sessions' = Append(sessions, Session("in", m.uri))
  /\ pendingIncomingSessions' =
       [pendingIncomingSessions EXCEPT ![m.uri] = Len(sessions) + 1]
  /\ IF connections[m.uri] # 0
     THEN /\ last' = Last(m.type, m.uri, "ok", <<"session">>, NoMsg)
          /\ UNCHANGED <<conns, connections>>
     ELSE IF CreatePeerConnectionErr(m.uri) # "ok"
     THEN /\ last' = Last(m.type, m.uri, CreatePeerConnectionErr(m.uri), <<"session">>, NoMsg)
          /\ UNCHANGED <<conns, connections>>
     ELSE /\ Len(conns) < MaxConns
          /\ conns' = Append(conns, [Connection(m.uri) EXCEPT
                                       !.remote = "pending", !.answer = "pending",
                                       !.offerSid = m.sid])
          /\ connections' = [connections EXCEPT ![m.uri] = Len(conns) + 1]
          /\ last' = Last(m.type, m.uri, "ok", <<"session", "incoming">>, NoMsg)
  /\ UNCHANGED <<attempts, socketOpen, pendingOutgoingSessions, pendingResponses,
                 hasSetRemoteOffer, candidates, requests, arrived>>

\* Client.onCandidate(candidate, uri) on the connection list cs:
\* connection.raw.addIceCandidate(c) on the connection registered for uri
onCandidate(cs, candidate, uri) ==
  [cs EXCEPT ![connections[uri]].engine = Append(@, candidate)]

\* the push of handleSyncCandidate: the sentinel and known literals are not buffered
Buffered(buf, candidate) ==
  IF candidate # Completed /\ \A i \in DOMAIN buf : buf[i] # candidate
  THEN Append(buf, candidate)
  ELSE buf

\* Client.handleSyncCandidate(message)
handleSyncCandidate(m) ==
  /\ IsEvent(m, "sync_candidate")
  /\ Len(arrived) < MaxCands
  /\ arrived' = Append(arrived, <<m.uri, m.cand>>)
  /\ candidates' = Buffered(candidates, m.cand)
  /\ IF hasSetRemoteOffer /\ m.cand # Completed
     THEN IF connections[m.uri] = 0
          THEN /\ last' = Last(m.type, m.uri, "TypeError", << >>, NoMsg)
               /\ UNCHANGED conns
          ELSE /\ conns' = onCandidate(conns, m.cand, m.uri)
               /\ last' = Last(m.type, m.uri, "ok", << >>, NoMsg)
     ELSE /\ last' = Last(m.type, m.uri, "ok", << >>, NoMsg)
          /\ UNCHANGED conns
  /\ UNCHANGED <<attempts, socketOpen, connections, pendingIncomingSessions,
                 pendingOutgoingSessions, pendingResponses, hasSetRemoteOffer,
                 sessions, requests>>

\* handleSocketMessage on any other message: the switch on message.cmd only logs
onCommand(m) ==
  /\ m.fmt = "json" /\ ~IsResponse(m)
  /\ m.type \notin {"publisher_offer", "sync_candidate"}
  /\ last' = Last(m.cmd, m.uri, "ok", << >>, NoMsg)
  /\ UNCHANGED <<attempts, socketOpen, connections, pendingIncomingSessions,
                 pendingOutgoingSessions, pendingResponses, hasSetRemoteOffer,
                 candidates, sessions, conns, requests, arrived>>

\* Client.handleSocketMessage(ev); the listener is attached until the socket closes
handleSocketMessage(m) ==
  /\ socketOpen
  /\ \/ onMalformed(m)
     \/ resumeNone(m)
     \/ resumeCreateSession(m)
     \/ resumeSubscribeStream(m)
     \/ resumeAccept(m)
     \/ resumeReject(m)
     \/ resumeCancel(m)
     \/ handlePublishOffer(m)
     \/ handleSyncCandidate(m)
     \/ onCommand(m)

\* Client.handleSocketError(ev)
handleSocketError ==
  /\ socketOpen
  /\ last' = Last("socketError", NoUri, "ok", <<"error">>, NoMsg)
  /\ UNCHANGED <<attempts, socketOpen, connections, pendingIncomingSessions,
                 pendingOutgoingSessions, pendingResponses, hasSetRemoteOffer,
                 candidates, sessions, conns, requests, arrived>>

\* Client.handleSocketClose(ev): the socket is closed, the three listeners are removed
handleSocketClose ==
  /\ socketOpen
  /\ socketOpen' = FALSE
  /\ last' = Last("socketClose", NoUri, "ok", <<"close">>, NoMsg)
  /\ UNCHANGED <<attempts, connections, pendingIncomingSessions, pendingOutgoingSessions,
                 pendingResponses, hasSetRemoteOffer, candidates, sessions, conns,
                 requests, arrived>>

\* ------------------------------------------------------------- engine events
\* the .then of raw.setRemoteDescription(offer) in handlePublishOffer:
\* the flag is set and the whole buffer is handed to the connection registered for the uri
setRemoteDescriptionResolved(k) ==
  /\ conns[k].wired /\ conns[k].remote = "pending"
  /\ hasSetRemoteOffer' = TRUE
  /\ LET uri == conns[k].uri
         c == connections[uri]
         applied == [conns EXCEPT ![k].remote = "applied", ![k].appliedAt = Len(arrived)] IN
     IF candidates = << >>
     THEN /\ conns' = applied
          /\ last' = Last("setRemoteDescription", uri, "ok", << >>, NoMsg)
     ELSE IF c = 0
     THEN /\ conns' = applied
          /\ last' = Last("setRemoteDescription", uri, "TypeError", << >>, NoMsg)
     ELSE /\ conns' = [applied EXCEPT ![c].replay = candidates,
                                      ![c].engine = @ \o candidates]
          /\ last' = Last("setRemoteDescription", uri, "ok", << >>, NoMsg)
  /\ UNCHANGED <<attempts, socketOpen, connections, pendingIncomingSessions,
                 pendingOutgoingSessions, pendingResponses, candidates, sessions,
                 requests, arrived>>

\* raw.setRemoteDescription(offer) rejected: handlePublishOffer attached no handler
setRemoteDescriptionRejected(k) ==
  /\ conns[k].wired /\ conns[k].remote = "pending"
  /\ conns' = [conns EXCEPT ![k].remote = "failed"]
  /\ last' = Last("setRemoteDescription", conns[k].uri, "EngineFailure", << >>, NoMsg)
  /\ UNCHANGED <<attempts, socketOpen, connections, pendingIncomingSessions,
                 pendingOutgoingSessions, pendingResponses, hasSetRemoteOffer,
                 candidates, sessions, requests, arrived>>

\* a send() whose promise nobody handles: what it throws is lost
SendDetached(op, cmd, uri, sid) ==
  IF SendErr(uri) = "ok"
  THEN LET r == SendFrom(pendingResponses, cmd, uri, sid, "none", uri, 0) IN
       /\ Len(requests) < MaxReqs
       /\ pendingResponses' = r.pr
       /\ requests' = r.requests
       /\ last' = Last(op, uri, "ok", << >>, r.out)
  ELSE /\ last' = Last(op, uri, SendErr(uri), << >>, NoMsg)
       /\ UNCHANGED <<pendingResponses, requests>>

\* the success callback of raw.createAnswer in handlePublishOffer:
\* setLocalDescription(answer), then this.send(answerStreamReq), not awaited
createAnswerSuccess(k) ==
  /\ conns[k].wired /\ conns[k].answer = "pending" /\ conns[k].remote = "applied"
  /\ conns' = [conns EXCEPT ![k].answer = "created"]
  /\ SendDetached("createAnswer", "answer_stream", conns[k].uri, conns[k].offerSid)
  /\ UNCHANGED <<attempts, socketOpen, connections, pendingIncomingSessions,
                 pendingOutgoingSessions, hasSetRemoteOffer, candidates, sessions,
                 arrived>>

\* raw.setLocalDescription(answer) of the success callback resolves; its promise
\* is dropped, so only the engine's state changes
setLocalDescriptionResolved(k) ==
  /\ conns[k].wired /\ conns[k].answer = "created"
  /\ conns' = [conns EXCEPT ![k].answer = "applied"]
  /\ last' = Last("setLocalDescription", conns[k].uri, "ok", << >>, NoMsg)
  /\ UNCHANGED <<attempts, socketOpen, connections, pendingIncomingSessions,
                 pendingOutgoingSessions, pendingResponses, hasSetRemoteOffer,
                 candidates, sessions, requests, arrived>>

\* raw.setLocalDescription(answer) rejects: nobody handles the rejection
setLocalDescriptionRejected(k) ==
  /\ conns[k].wired /\ conns[k].answer = "created"
  /\ conns' = [conns EXCEPT ![k].answer = "rejected"]
  /\ last' = Last("setLocalDescription", conns[k].uri, "EngineFailure", << >>, NoMsg)
  /\ UNCHANGED <<attempts, socketOpen, connections, pendingIncomingSessions,
                 pendingOutgoingSessions, pendingResponses, hasSetRemoteOffer,
                 candidates, sessions, requests, arrived>>

\* the error callback of raw.createAnswer in handlePublishOffer: an alert
createAnswerError(k) ==
  /\ conns[k].wired /\ conns[k].answer = "pending" /\ conns[k].remote \in {"applied", "failed"}
  /\ conns' = [conns EXCEPT ![k].answer = "failed"]
  /\ last' = Last("createAnswer", conns[k].uri, "EngineFailure", << >>, NoMsg)
  /\ UNCHANGED <<attempts, socketOpen, connections, pendingIncomingSessions,
                 pendingOutgoingSessions, pendingResponses, hasSetRemoteOffer,
                 candidates, sessions, requests, arrived>>

\* PeerConnection.handleIceCandidate(ev) with a candidate: client.send(req)
handleIceCandidate(k) ==
  /\ conns[k].wired
  /\ SendDetached("iceCandidate", "sync_candidate", conns[k].uri, NoId)
  /\ UNCHANGED <<attempts, socketOpen, connections, pendingIncomingSessions,
                 pendingOutgoingSessions, hasSetRemoteOffer, candidates, sessions,
                 conns, arrived>>

\* PeerConnection.handleTrack(ev): 'track' is dispatched on the connection
handleTrack(k) ==
  /\ conns[k].wired
  /\ last' = Last("track", conns[k].uri, "ok", <<"track">>, NoMsg)
  /\ UNCHANGED <<attempts, socketOpen, connections, pendingIncomingSessions,
                 pendingOutgoingSessions, pendingResponses, hasSetRemoteOffer,
                 candidates, sessions, conns, requests, arrived>>

\* PeerConnection.handleDataChannel(ev): 'data-channel' is dispatched on the connection
handleDataChannel(k) ==
  /\ conns[k].wired
  /\ last' = Last("dataChannel", conns[k].uri, "ok", <<"data-channel">>, NoMsg)
  /\ UNCHANGED <<attempts, socketOpen, connections, pendingIncomingSessions,
                 pendingOutgoingSessions, pendingResponses, hasSetRemoteOffer,
                 candidates, sessions, conns, requests, arrived>>

\* the promise of connection.raw.addIceCandidate(c) in onCandidate rejects:
\* onCandidate drops the promise, so nobody handles the rejection
addIceCandidateRejected(k) ==
  /\ conns[k].wired /\ conns[k].engine # << >>
  /\ last' = Last("addIceCandidate", conns[k].uri, "EngineFailure", << >>, NoMsg)
  /\ UNCHANGED <<attempts, socketOpen, connections, pendingIncomingSessions,
                 pendingOutgoingSessions, pendingResponses, hasSetRemoteOffer,
                 candidates, sessions, conns, requests, arrived>>

\* handleClose() whose 'close' event does not reach the client's listener
handleClose_KeepsEntry(k, before) ==
  /\ conns' = [conns EXCEPT ![k].wired = FALSE, ![k].events = @ \o before \o <<"close">>]
  /\ UNCHANGED connections

\* handleClose() that leaves the engine listeners attached
handleClose_KeepsWiring(k, before) ==
  /\ conns' = [conns EXCEPT ![k].events = @ \o before \o <<"close">>]
  /\ connections' = [connections EXCEPT ![conns[k].uri] = 0]

\* PeerConnection.handleClose(): the engine listeners are removed, 'close' is
\* dispatched, and the client's once-listener deletes the registry entry of the uri
handleClose(k, before) ==
  /\ conns' = [conns EXCEPT ![k].wired = FALSE, ![k].events = @ \o before \o <<"close">>]
  /\ connections' = [connections EXCEPT ![conns[k].uri] = 0]

\* PeerConnection.handleIceConnectionStateChange() with state 'failed' or 'closed'
handleIceConnectionStateChange(k, state) ==
  /\ conns[k].wired
  /\ handleClose(k, IF state = "failed" THEN <<"failed">> ELSE << >>)
  /\ last' = Last("iceConnectionStateChange", conns[k].uri, "ok", << >>, NoMsg)
  /\ UNCHANGED <<attempts, socketOpen, pendingIncomingSessions, pendingOutgoingSessions,
                 pendingResponses, hasSetRemoteOffer, candidates, sessions, requests,
                 arrived>>

\* PeerConnection.handleSignalingStateChange() with state 'closed'
handleSignalingStateChange(k) ==
  /\ conns[k].wired
  /\ handleClose(k, << >>)
  /\ last' = Last("signalingStateChange", conns[k].uri, "ok", << >>, NoMsg)
  /\ UNCHANGED <<attempts, socketOpen, pendingIncomingSessions, pendingOutgoingSessions,
                 pendingResponses, hasSetRemoteOffer, candidates, sessions, requests,
                 arrived>>

\* ------------------------------------------------------------- connect()
PROTOCOL == "titan-protocol"

\* the first message of a socket: its data (binary, no JSON, JSON) and, of a JSON
\* message, its result, whether it has a transaction_id, and its session_id
Greeting(fmt, result, tid, sid) == [fmt |-> fmt, result |-> result, tid |-> tid, sid |-> sid]
NoGreeting == Greeting("-", "-", FALSE, NoId)
Greetings ==
  {Greeting(f, "-", FALSE, NoId) : f \in {"binary", "badjson"}}
    \cup {Greeting("json", r, t, i) :
            r \in {"success", "event", "failed", "other"}, t \in BOOLEAN,
            i \in {NoId, ServerId}}

\* one connect() call: the socket's readyState, whether the four handshake
\* listeners are attached, the calls of resolve/reject so far and whether the
\* listeners were detached at each of them, the promise's outcome, the ID of the
\* Client constructed, the code passed to socket.close, the message that settled
Attempt ==
  [ready |-> "connecting", listening |-> TRUE, settles |-> 0, unwired |-> TRUE,
   outcome |-> "pending", err |-> "-", id |-> NoId, code |-> 0, first |-> NoGreeting]

removeListeners(a) == [a EXCEPT !.listening = FALSE]

\* reject(error) of the promise executor: a settled promise keeps its outcome
connectReject(a, err) ==
  IF a.outcome = "pending"
  THEN [a EXCEPT !.outcome = "rejected", !.err = err, !.settles = @ + 1,
                 !.unwired = @ /\ ~a.listening]
  ELSE [a EXCEPT !.settles = @ + 1, !.unwired = @ /\ ~a.listening]

\* resolve(new Client(id, socket, configuration)); the constructor finds the
\* socket open, a 'message' event being delivered on open sockets only
connectResolve(a, id) ==
  IF a.outcome = "pending"
  THEN [a EXCEPT !.outcome = "resolved", !.id = id, !.settles = @ + 1,
                 !.unwired = @ /\ ~a.listening]
  ELSE [a EXCEPT !.settles = @ + 1, !.unwired = @ /\ ~a.listening]

\* socket.close(code)
socketClose(a, code) == [a EXCEPT !.ready = "closing", !.code = code]

\* the handshake actions leave the state of the constructed client alone
ClientUnchanged ==
  UNCHANGED <<socketOpen, connections, pendingIncomingSessions,
              pendingOutgoingSessions, pendingResponses, hasSetRemoteOffer,
              candidates, sessions, conns, requests, arrived, last>>

\* connect(url): the socket is created and the four listeners are attached
connect ==
  /\ Len(attempts) < MaxConnects
  /\ attempts' = Append(attempts, Attempt)
  /\ ClientUnchanged

\* onOpen of attempt i, the socket having negotiated the given protocol
onOpen(i, protocol) ==
  /\ attempts[i].listening /\ attempts[i].ready = "connecting"
  /\ LET a == [attempts[i] EXCEPT !.ready = "open"] IN
     attempts' = [attempts EXCEPT ![i] =
       IF protocol # PROTOCOL
       THEN socketClose(connectReject(removeListeners(a), "Expected protocol"), 1002)
       ELSE a]
  /\ ClientUnchanged

\* onMessage of attempt i with the message m
onMessage(i, m) ==
  /\ attempts[i].listening /\ attempts[i].ready = "open"
  /\ LET a == [attempts[i] EXCEPT !.first = m] IN
     attempts' = [attempts EXCEPT ![i] =
       IF m.fmt = "binary"
       THEN socketClose(connectReject(removeListeners(a), "Expected a string"), 1003)
       ELSE IF m.fmt = "badjson"
       THEN socketClose(connectReject(removeListeners(a), "Unable to parse message"), 1003)
       ELSE IF m.result \notin {"success", "event", "failed"}
       THEN socketClose(connectReject(removeListeners(a), "Expected result"), 1008)
       ELSE IF m.result = "success" /\ ~m.tid
       THEN socketClose(connectReject(removeListeners(a), "Missing Transaction ID"), 1008)
       ELSE IF m.result = "event" /\ m.sid = NoId
       THEN socketClose(connectReject(removeListeners(a), "Missing Session ID"), 1008)
       ELSE connectResolve(removeListeners(a), m.sid)]
  /\ ClientUnchanged

\* onError of attempt i
onError(i) ==
  /\ attempts[i].listening /\ attempts[i].ready \in {"connecting", "open"}
  /\ attempts' = [attempts EXCEPT ![i] = connectReject(removeListeners(@), "error")]
  /\ ClientUnchanged

\* onClose of attempt i: the socket has closed
onClose(i) ==
  /\ attempts[i].listening /\ attempts[i].ready # "closed"
  /\ attempts' = [attempts EXCEPT ![i] =
       connectReject(removeListeners([@ EXCEPT !.ready = "closed"]), "Socket closed")]
  /\ ClientUnchanged

\* ------------------------------------------------------------- the client
\* The client under six workloads.  A workload chooses what the application
\* calls and what the server and the engine deliver; every handler is the whole
\* handler in each of them.

\* the connection registry: connections created by the application, by accepted
\* sessions and by inbound offers, and closed by the engine
NextRegistry ==
  \/ \E uri \in Peers : createPeerConnection(uri)
  \/ \E s \in DOMAIN sessions : accept(s)
  \/ \E m \in {o \in Offers : o.sid = NoId /\ o.uri = "B"}
              \cup {r \in Responses : r.rsid = NoId /\ r.result = "success"} :
       handleSocketMessage(m)
  \/ \E k \in DOMAIN conns : handleIceConnectionStateChange(k, "failed")

SpecRegistry == Init /\ [][NextRegistry]_vars

\* session negotiation: proposals, settlements, the server's answers and offers
NextSessions ==
  \/ \E uri \in Peers : createSession(uri)
  \/ \E uri \in Peers : subscribeStream(uri)
  \/ \E s \in DOMAIN sessions : accept(s)
  \/ \E s \in DOMAIN sessions : reject(s)
  \/ \E s \in DOMAIN sessions : cancel(s)
  \/ \E m \in {r \in Responses : r.rsid = NoId} \cup {o \in Offers : o.sid = NoId}
              \cup Commands :
       handleSocketMessage(m)

SpecSessions == Init /\ [][NextSessions]_vars

\* the calls of the application on the client, towards itself or a peer, with
\* the server's responses and the socket's close
NextCalls ==
  \/ \E uri \in {Self, "B"} : createPeerConnection(uri)
  \/ \E uri \in {Self, "B"} : createSession(uri)
  \/ \E uri \in {Self, "B"} : subscribeStream(uri)
  \/ \E uri \in {Self, "B"}, sid \in {NoId, ServerId} : send(uri, sid)
  \/ \E m \in {r \in Responses : r.rsid = NoId /\ r.result = "success"} :
       handleSocketMessage(m)
  \/ handleSocketClose

SpecCalls == Init /\ [][NextCalls]_vars

\* request correlation: requests with fresh and with caller-supplied identifiers
\* outstanding at once, the server's responses, malformed data, the socket's
\* error and close
NextCorrelation ==
  \/ \E sid \in {NoId, ServerId} : send("B", sid)
  \/ subscribeStream("B")
  \/ \E m \in Responses \cup Malformed : handleSocketMessage(m)
  \/ handleSocketError
  \/ handleSocketClose

SpecCorrelation == Init /\ [][NextCorrelation]_vars

\* the connection handshake: inbound offers, the engine's completions of
\* setRemoteDescription, createAnswer and setLocalDescription, the socket's close
NextHandshake ==
  \/ \E m \in Offers : handleSocketMessage(m)
  \/ \E k \in DOMAIN conns : setRemoteDescriptionResolved(k)
  \/ \E k \in DOMAIN conns : setRemoteDescriptionRejected(k)
  \/ \E k \in DOMAIN conns : createAnswerSuccess(k)
  \/ \E k \in DOMAIN conns : createAnswerError(k)
  \/ \E k \in DOMAIN conns : setLocalDescriptionResolved(k)
  \/ \E k \in DOMAIN conns : setLocalDescriptionRejected(k)
  \/ \E k \in DOMAIN conns : handleSignalingStateChange(k)
  \/ handleSocketClose

SpecHandshake == Init /\ [][NextHandshake]_vars

\* candidate buffering: inbound offers and candidates, the remote description
\* applied by the engine, connections closed by the engine
NextCandidates ==
  \/ \E m \in {o \in Offers : o.sid = NoId} \cup {c \in CandidateMessages : c.sid = NoId} :
       handleSocketMessage(m)
  \/ \E k \in DOMAIN conns : setRemoteDescriptionResolved(k)
  \/ \E k \in DOMAIN conns : handleSignalingStateChange(k)

SpecCandidates == Init /\ [][NextCandidates]_vars

\* settlement: the sessions with one peer, settled by reject(), by the server's
\* responses to pending requests and by the transitions delivered from outside
NextSettlement ==
  \/ createSession("B")
  \/ \E s \in DOMAIN sessions : reject(s)
  \/ \E s \in DOMAIN sessions : handleAccept(s)
  \/ \E s \in DOMAIN sessions : handleReject(s)
  \/ \E s \in DOMAIN sessions : handleTimeoutOut(s)
  \/ \E s \in DOMAIN sessions : handleCancel(s)
  \/ \E s \in DOMAIN sessions : handleTimeoutIn(s)
  \/ \E m \in {r \in Responses : r.rsid = NoId /\ IsResponse(r)}
              \cup {o \in Offers : o.sid = NoId /\ o.uri = "B"} :
       handleSocketMessage(m)

SpecSettlement == Init /\ [][NextSettlement]_vars

\* failed requests: the calls that await a response, towards one peer, and the
\* server's responses to the pending ones
NextFailures ==
  \/ createSession("B")
  \/ \E s \in DOMAIN sessions : accept(s)
  \/ \E s \in DOMAIN sessions : reject(s)
  \/ \E s \in DOMAIN sessions : cancel(s)
  \/ \E m \in {r \in Responses : r.rsid = NoId /\ IsResponse(r)}
              \cup {o \in Offers : o.sid = NoId /\ o.uri = "B"} :
       handleSocketMessage(m)

SpecFailures == Init /\ [][NextFailures]_vars

\* the life of a connection: connections created by the application, the engine's
\* events on them, the socket's close
NextConnection ==
  \/ \E uri \in Remote : createPeerConnection(uri)
  \/ \E k \in DOMAIN conns : handleIceCandidate(k)
  \/ \E k \in DOMAIN conns : handleTrack(k)
  \/ \E k \in DOMAIN conns : handleDataChannel(k)
  \/ \E k \in DOMAIN conns, state \in {"failed", "closed"} :
       handleIceConnectionStateChange(k, state)
  \/ \E k \in DOMAIN conns : handleSignalingStateChange(k)
  \/ handleSocketClose

SpecConnection == Init /\ [][NextConnection]_vars

\* removal from the registry: connections of one peer created by the application
\* and by inbound offers, the failures of the engine's handshake calls, and the
\* engine's connectivity signals
NextRemoval ==
  \/ createPeerConnection("B")
  \/ \E m \in {o \in Offers : o.sid = NoId /\ o.uri = "B"}
              \cup {c \in CandidateMessages : c.sid = NoId /\ c.uri = "B" /\ c.cand = "c1"} :
       handleSocketMessage(m)
  \/ \E k \in DOMAIN conns : setRemoteDescriptionResolved(k)
  \/ \E k \in DOMAIN conns : setRemoteDescriptionRejected(k)
  \/ \E k \in DOMAIN conns : createAnswerError(k)
  \/ \E k \in DOMAIN conns : addIceCandidateRejected(k)
  \/ \E k \in DOMAIN conns, state \in {"failed", "closed"} :
       handleIceConnectionStateChange(k, state)
  \/ \E k \in DOMAIN conns : handleSignalingStateChange(k)

SpecRemoval == Init /\ [][NextRemoval]_vars

\* the handshake of connect(): concurrent attempts, the socket's open, first
\* message, error and close
NextConnect ==
  \/ connect
  \/ \E i \in DOMAIN attempts, protocol \in {PROTOCOL, ""} : onOpen(i, protocol)
  \/ \E i \in DOMAIN attempts, m \in Greetings : onMessage(i, m)
  \/ \E i \in DOMAIN attempts : onError(i)
  \/ \E i \in DOMAIN attempts : onClose(i)

SpecConnect == Init /\ [][NextConnect]_vars
\* ------------------------------------------------------------- properties
\* C1: no two live PeerConnection objects share a peer, the registry holds exactly
\* the live ones, and createPeerConnection(p) on a registered p throws the
\* already-connected error and changes neither the registry nor any connection.
RegistryHoldsTheLiveConnections ==
  /\ \A k1, k2 \in DOMAIN conns :
       conns[k1].wired /\ conns[k2].wired /\ conns[k1].uri = conns[k2].uri => k1 = k2
  /\ \A k \in DOMAIN conns : conns[k].wired => connections[conns[k].uri] = k
  /\ \A p \in Peers : connections[p] # 0 =>
       connections[p] \in DOMAIN conns /\ conns[connections[p]].uri = p
                                       /\ conns[connections[p]].wired
SecondCreateFails ==
  \A p \in Peers : connections[p] # 0 /\ createPeerConnection(p) =>
    last'.err = "AlreadyConnected" /\ UNCHANGED <<connections, conns>>
C1_OneConnectionPerPeer == []RegistryHoldsTheLiveConnections /\ [][SecondCreateFails]_vars
C1_Witness ==
  /\ last.op = "createPeerConnection" /\ last.err = "AlreadyConnected"
  /\ connections[last.uri] # 0 /\ Len(conns) = 2

\* C2: for every peer at most one unsettled session object, incoming or outgoing, exists.
C2_OneActiveSessionPerPeer ==
  \A p \in Peers :
    Cardinality({s \in DOMAIN sessions : sessions[s].peer = p /\ ~sessions[s].settled}) <= 1

\* C3: a call of accept, reject or cancel on a session on which an earlier such call
\* is still awaiting its response fails with 'Request already settled'.
OutstandingCall(s) ==
  \E k \in Keys : pendingResponses[k].sess = s
                    /\ pendingResponses[k].kind \in {"accept", "reject", "cancel"}
C3_SecondCallAlreadySettled ==
  [][\A s \in DOMAIN sessions :
       OutstandingCall(s) /\ (accept(s) \/ reject(s) \/ cancel(s)) =>
         last'.err = "AlreadySettled"]_vars

\* C4: every request is resolved at most once, and only by a message whose
\* session_id is the identifier send() registered it under; a stored resolver
\* belongs to an unresolved request registered under its key.
C4_CorrelationExact ==
  /\ \A n \in DOMAIN requests :
       /\ requests[n].times <= 1
       /\ requests[n].times = 1 => requests[n].by = requests[n].key
       /\ requests[n].times = 0 => requests[n].by = NoId
  /\ \A k \in Keys : pendingResponses[k] # NoResolver =>
       /\ pendingResponses[k].req \in DOMAIN requests
       /\ requests[pendingResponses[k].req].key = k
       /\ requests[pendingResponses[k].req].times = 0
C4_Witness ==
  \E n1, n2 \in DOMAIN requests :
    /\ n1 < n2 /\ requests[n2].times = 1 /\ requests[n1].times = 0
    /\ pendingResponses[requests[n1].key].req = n1

\* C5: once the socket has closed no resolver is left in pendingResponses.
C5_CloseResolvesPending ==
  ~socketOpen => \A k \in Keys : pendingResponses[k] = NoResolver

\* C6: when the remote description of a connection is applied, the candidates
\* received for its peer until then are handed to the engine in the order of their
\* first arrival, each literal once, and the sentinel is never handed to an engine.
RECURSIVE Dedup(_)
Dedup(seq) ==
  IF seq = << >> THEN << >>
  ELSE LET front == Dedup(SubSeq(seq, 1, Len(seq) - 1))
           x == seq[Len(seq)] IN
       IF \E i \in DOMAIN front : front[i] = x THEN front ELSE Append(front, x)
ReceivedFor(uri, upto) ==
  LET mine(e) == e[1] = uri /\ e[2] # Completed
      early == SelectSeq(SubSeq(arrived, 1, upto), mine) IN
  [i \in DOMAIN early |-> early[i][2]]
C6_ReplayInArrivalOrder ==
  \A k \in DOMAIN conns :
    /\ \A i \in DOMAIN conns[k].engine : conns[k].engine[i] # Completed
    /\ conns[k].remote = "applied" =>
         LET early == ReceivedFor(conns[k].uri, conns[k].appliedAt)
             ofPeer(c) == \E i \in DOMAIN early : early[i] = c IN
         SelectSeq(conns[k].replay, ofPeer) = Dedup(early)

\* C7: the step that applies the remote description and drains the buffer leaves
\* the buffer empty.
C7_BufferEmptyAfterDrain ==
  [][\A k \in DOMAIN conns : setRemoteDescriptionResolved(k) => candidates' = << >>]_vars

\* C8 as stated: every call addressed to the client's own ID throws the
\* self-addressed error and sends, registers and creates nothing.
SelfCall ==
  \/ createSession(Self) \/ subscribeStream(Self) \/ createPeerConnection(Self)
  \/ \E sid \in {NoId, ServerId} : send(Self, sid)
NothingDone ==
  /\ last'.out = NoMsg
  /\ UNCHANGED <<pendingResponses, requests, sessions, conns, connections,
                 pendingIncomingSessions, pendingOutgoingSessions>>
C8_SelfAddressedAlways ==
  [][SelfCall => last'.err = "SelfAddressed" /\ NothingDone]_vars
\* C8 amended: send() to the own ID on a socket that is not open throws the
\* socket-not-open error instead; in every case nothing is sent, registered or created.
C8_SelfAddressedRejected ==
  [][SelfCall =>
       /\ last'.err = IF last'.op = "send" /\ ~socketOpen THEN "SocketNotOpen"
                      ELSE "SelfAddressed"
       /\ NothingDone]_vars
C8_Witness ==
  /\ last.uri = Self /\ last.op = "send" /\ last.err = "SelfAddressed"
  /\ \E k \in Keys : pendingResponses[k] # NoResolver

\* C9: a session-accept message for a peer with a proposed outgoing session settles
\* that session as accepted and leaves a connection for the peer in the registry.
C9_SessionAcceptDelivered ==
  [][\A m \in Commands :
       /\ handleSocketMessage(m)
       /\ pendingOutgoingSessions[m.uri] # 0
       /\ ~sessions[pendingOutgoingSessions[m.uri]].settled
       => /\ sessions'[pendingOutgoingSessions[m.uri]].events = <<"accepted", "settled">>
          /\ connections'[m.uri] # 0]_vars

\* C10: an inbound offer for a peer without a connection creates and registers a
\* connection for the peer, notifies 'session' and 'incoming', and has the offer
\* given to the engine as the remote description.
C10_OfferCreatesConnection ==
  [][\A m \in Offers :
       handleSocketMessage(m) /\ connections[m.uri] = 0
       => /\ connections'[m.uri] = Len(conns) + 1
          /\ conns'[Len(conns) + 1].uri = m.uri
          /\ conns'[Len(conns) + 1].remote = "pending"
          /\ last'.ev = <<"session", "incoming">>]_vars

\* C11: a session that is not settled has emitted nothing, a settled one has emitted
\* exactly one terminal event followed by 'settled', and once settled a session
\* emits nothing more and never changes.
Terminal == {"accepted", "rejected", "canceled", "timed-out", "error"}
OneTerminalThenSettled ==
  \A s \in DOMAIN sessions :
    IF sessions[s].settled
    THEN /\ Len(sessions[s].events) = 2
         /\ sessions[s].events[1] \in Terminal
         /\ sessions[s].events[2] = "settled"
    ELSE sessions[s].events = << >>
SettledIsFinal ==
  \A s \in DOMAIN sessions : sessions[s].settled => sessions'[s] = sessions[s]
C11_SettlementNotifiesOnce == []OneTerminalThenSettled /\ [][SettledIsFinal]_vars
C11_Witness ==
  /\ last.op = "handleTimeout" /\ last.ev = << >>
  /\ Len(sessions) = 1 /\ sessions[1].events = <<"rejected", "settled">>

\* C12: handleAccept, handleReject, handleTimeout or handleCancel on a settled
\* session raises no error, emits no event and changes neither the session nor
\* the registry.
C12_TransitionAfterSettlementSilent ==
  [][\A s \in DOMAIN sessions :
       /\ sessions[s].settled
       /\ \/ handleAccept(s) \/ handleReject(s) \/ handleTimeoutOut(s)
          \/ handleCancel(s) \/ handleTimeoutIn(s)
       => /\ last'.err = "ok" /\ last'.ev = << >>
          /\ UNCHANGED <<sessions, conns, connections, pendingIncomingSessions,
                         pendingOutgoingSessions>>]_vars

\* C14: a 'failed' response to accept, reject or cancel raises the remote failure
\* to the caller and settles the session with 'error' then 'settled' unless it was
\* settled already; a 'failed' response to createSession raises it and registers
\* no session.
FailedResponseTo(m, kinds) ==
  /\ m.result = "failed" /\ IsResponse(m) /\ pendingResponses[m.sid].kind \in kinds
  /\ handleSocketMessage(m)
C14_FailedResponseSettlesError ==
  [][\A m \in {r \in Responses : r.result = "failed" /\ IsResponse(r)} :
       /\ FailedResponseTo(m, {"accept", "reject", "cancel"}) =>
            LET s == pendingResponses[m.sid].sess IN
            /\ last'.err = "RemoteRejected"
            /\ sessions' = IF sessions[s].settled THEN sessions
                           ELSE [sessions EXCEPT ![s].settled = TRUE,
                                                 ![s].events = <<"error", "settled">>]
       /\ FailedResponseTo(m, {"createSession"}) =>
            /\ last'.err = "RemoteRejected"
            /\ UNCHANGED <<sessions, pendingOutgoingSessions, pendingIncomingSessions>>]_vars
C14_Witness ==
  /\ last.op = "response" /\ last.err = "RemoteRejected"
  /\ \E s \in DOMAIN sessions :
       sessions[s].peer = last.uri /\ sessions[s].events = <<"error", "settled">>

\* C13: a connection dispatches 'close' at most once, exactly when its engine
\* listeners have been removed, and no engine callback of a connection is handled
\* once it has dispatched 'close'.
CloseOnce ==
  \A k \in DOMAIN conns :
    /\ Cardinality({i \in DOMAIN conns[k].events : conns[k].events[i] = "close"}) <= 1
    /\ conns[k].wired <=> \A i \in DOMAIN conns[k].events : conns[k].events[i] # "close"
NoCallbackAfterClose ==
  \A k \in DOMAIN conns :
    ~conns[k].wired =>
      /\ conns'[k] = conns[k]
      /\ ~ \/ handleIceCandidate(k) \/ handleTrack(k) \/ handleDataChannel(k)
           \/ handleSignalingStateChange(k)
           \/ \E state \in {"failed", "closed"} : handleIceConnectionStateChange(k, state)
C13_CloseUnwiresFirst == []CloseOnce /\ [][NoCallbackAfterClose]_vars
C13_Witness ==
  /\ Len(conns) = 2 /\ conns[1].uri = conns[2].uri
  /\ ~conns[1].wired /\ conns[1].events = <<"failed", "close">>
  /\ conns[2].wired /\ last.op = "iceCandidate" /\ last.out.cmd = "sync_candidate"

\* C15: send() with a session_id under which a resolver is still pending fails
\* with the duplicate-correlation error and leaves the pending resolver in place.
C15_DuplicateCorrelationRefused ==
  [][\A uri \in Peers, sid \in Keys :
       send(uri, sid) /\ SendErr(uri) = "ok" /\ pendingResponses[sid] # NoResolver
       => last'.err = "DuplicateCorrelation" /\ UNCHANGED pendingResponses]_vars

\* C16: a candidate for a peer whose own remote description has not been applied
\* is handed to no engine and raises nothing; one that arrives after it has been
\* applied is handed to the engine of that peer's connection.
C16_CandidateGatedPerPeer ==
  [][\A m \in CandidateMessages :
       handleSocketMessage(m) /\ IsEvent(m, "sync_candidate") /\ m.cand # Completed =>
         LET c == connections[m.uri] IN
         IF c # 0 /\ conns[c].remote = "applied"
         THEN conns' = [conns EXCEPT ![c].engine = Append(@, m.cand)]
         ELSE conns' = conns /\ last'.err = "ok"]_vars

\* C17: every candidate handed to the engine of a connection was received in a
\* sync_candidate message whose uri is the peer of that connection.
C17_BufferScopedToConnection ==
  \A k \in DOMAIN conns : \A i \in DOMAIN conns[k].engine :
    \E j \in DOMAIN arrived : arrived[j] = <<conns[k].uri, conns[k].engine[i]>>

\* C18: when the answer message is sent the offer has been applied as the remote
\* description and the answer has been applied as the local description.
C18_HandshakeInOrder ==
  [][\A k \in DOMAIN conns :
       createAnswerSuccess(k) /\ last'.out.cmd = "answer_stream"
       => conns[k].remote = "applied" /\ conns'[k].answer = "applied"]_vars

\* C19: an inbound publisher_offer or sync_candidate message is handled by
\* handlePublishOffer or handleSyncCandidate whatever requests are pending, and
\* resolves none of them.
C19_EventsNeverConsumedAsResponses ==
  [][\A m \in Offers \cup CandidateMessages :
       handleSocketMessage(m)
       => last'.op = m.type /\ UNCHANGED <<pendingResponses, requests>>]_vars

\* C20: when accept() completes successfully (the response is not 'failed' and the
\* connection is created) the session is settled, has emitted its two events and
\* is no longer among the pending incoming sessions.
C20_AcceptSettles ==
  [][\A m \in Responses :
       /\ IsResponse(m) /\ pendingResponses[m.sid].kind = "accept"
       /\ handleSocketMessage(m)
       /\ m.result # "failed" /\ last'.err = "ok"
       => LET s == pendingResponses[m.sid].sess IN
          /\ sessions'[s].settled /\ Len(sessions'[s].events) = 2
          /\ pendingIncomingSessions'[sessions[s].peer] = 0]_vars

\* C21: handleAccept() on an unsettled outgoing session settles it as accepted and
\* leaves the connection it created registered for the session's peer.
C21_HandleAcceptSettlesAccepted ==
  [][\A s \in DOMAIN sessions :
       ~sessions[s].settled /\ handleAccept(s)
       => /\ last'.err = "ok"
          /\ sessions'[s].settled /\ sessions'[s].events = <<"accepted", "settled">>
          /\ connections'[sessions[s].peer] = Len(conns) + 1]_vars

\* C22: a registry entry is removed exactly in the step in which its connection
\* reacts to the engine's ICE state closed/failed or signaling state closed and
\* emits 'close'; a failing setRemoteDescription, createAnswer or addIceCandidate
\* changes no entry; with no entry for a peer createPeerConnection succeeds.
EngineClosed(k) ==
  \/ handleSignalingStateChange(k)
  \/ \E state \in {"failed", "closed"} : handleIceConnectionStateChange(k, state)
EngineCallFailed(k) ==
  \/ setRemoteDescriptionRejected(k) \/ createAnswerError(k)
  \/ addIceCandidateRejected(k)
RemovedOnlyOnClose ==
  \A p \in Peers :
    connections[p] # 0 /\ connections'[p] # connections[p] =>
      /\ connections'[p] = 0
      /\ EngineClosed(connections[p])
      /\ conns'[connections[p]].events[Len(conns'[connections[p]].events)] = "close"
RemovedOnClose ==
  \A k \in DOMAIN conns :
    /\ conns[k].wired /\ EngineClosed(k) => connections'[conns[k].uri] = 0
    /\ EngineCallFailed(k) => UNCHANGED connections
CreateAfterRemoval ==
  \A p \in Remote :
    connections[p] = 0 /\ createPeerConnection(p) =>
      last'.err = "ok" /\ connections'[p] = Len(conns) + 1
C22_EntryRemovedOnEngineClose ==
  [][RemovedOnlyOnClose /\ RemovedOnClose /\ CreateAfterRemoval]_vars
C22_Witness ==
  /\ last.op = "createPeerConnection" /\ last.err = "ok"
  /\ Len(conns) = 2 /\ conns[1].uri = conns[2].uri /\ connections[conns[2].uri] = 2
  /\ conns[1].remote = "failed" /\ conns[1].events = <<"failed", "close">>

\* C23: a message handed to the socket by a call has its resolver stored in
\* pendingResponses under the message's session_id in that same step, and a
\* send() that fails its checks stores no resolver and hands nothing to the socket.
C23_WaiterRegisteredWithTransmit ==
  [][/\ Len(requests') > Len(requests) =>
          /\ Len(requests') = Len(requests) + 1
          /\ last'.out # NoMsg /\ last'.out.key = requests'[Len(requests')].key
          /\ pendingResponses'[last'.out.key].req = Len(requests')
     /\ \A uri \in Peers, sid \in {NoId, ServerId} :
          send(uri, sid) /\ SendErr(uri) # "ok" =>
            /\ last'.err = SendErr(uri) /\ last'.out = NoMsg
            /\ UNCHANGED <<pendingResponses, requests>>]_vars
C23_Witness ==
  /\ last.op = "send" /\ last.err = "ok" /\ last.out # NoMsg
  /\ pendingResponses[last.out.key].req = Len(requests)
  /\ \E k \in Keys : k # last.out.key /\ pendingResponses[k] # NoResolver

C25_MalformedOnlyNotifies ==
  [][\A m \in Malformed :
       handleSocketMessage(m) =>
         /\ last'.ev = <<"error">> /\ last'.out = NoMsg
         /\ UNCHANGED <<attempts, socketOpen, connections, pendingIncomingSessions,
                        pendingOutgoingSessions, pendingResponses, hasSetRemoteOffer,
                        candidates, sessions, conns, requests>>]_vars
C25_Witness ==
  /\ last.op = "malformed" /\ last.ev = <<"error">>
  /\ \E k \in Keys : pendingResponses[k].kind = "subscribeStream"
  /\ \E k \in Keys : pendingResponses[k].kind = "none"

\* C26: every connect() calls resolve/reject at most once and with the handshake
\* listeners removed; it resolves only on a first message whose result is
\* success, event or failed and that carries a session_id, which is the ID of
\* the Client; on any other first message, on error and on close it rejects.
C26_ConnectSettlesOnce ==
  \A i \in DOMAIN attempts :
    LET a == attempts[i] IN
    /\ a.settles <= 1 /\ a.unwired
    /\ a.settles = 1 <=> a.outcome # "pending"
    /\ a.settles = 1 => ~a.listening
    /\ a.outcome = "resolved" =>
         /\ a.first.fmt = "json" /\ a.first.result \in {"success", "event", "failed"}
         /\ a.first.sid # NoId /\ a.id = a.first.sid
    /\ a.first # NoGreeting /\ a.outcome # "resolved" => a.outcome = "rejected"
====
